---- MODULE Spec2Model ----
(***************************************************************************)
(* Model of the LDS v2 discovery session of pilot/pkg/proxy/envoy/v2:      *)
(* DiscoveryServer.StreamListeners (receive goroutine, handoff channel,    *)
(* main select loop, ticker) and DiscoveryServer.FetchListeners, and of the *)
(* helpers of the v2 package: normalizeListeners, the duration conversions,  *)
(* mustMarshalToString, and the REST facade (NewDiscoveryService,           *)
(* ListListenersV2).                                                       *)
(***************************************************************************)
EXTENDS Integers, Naturals, Sequences, FiniteSets, TLC

VARIABLES
    initialRequest,  \* lds.go:81   initialRequest := true
    discReq,         \* lds.go:79   var discReq *xdsapi.DiscoveryRequest
    receiveError,    \* lds.go:80   var receiveError error
    reqChannel,      \* lds.go:82   buffered content of reqChannel (capacity 1)
    chanClosed,      \* lds.go:84   whether close(reqChannel) has run
    recvPc,          \* position of the receive goroutine (lds.go:83-97)
    recvReq,         \* req held by the receive goroutine between Recv and the channel send
    nRecv,           \* number of requests stream.Recv has returned so far
    mainPc,          \* position of the main loop (lds.go:98-125)
    tickPending,     \* whether ticker.C holds a tick (time.Ticker channel, capacity 1)
    sent,            \* responses stream.Send has delivered, in order
    sendCalls,       \* number of calls of stream.Send made so far
    result,          \* return value of StreamListeners, "running" until it returns
    lastEvent,       \* history: the select case the main loop took last, the flag and
                     \* the number of Send calls it saw, the error Recv returned, the
                     \* requests Recv returned and those the main loop took, in order
    fetch,           \* the last FetchListeners call: its request and what it returned
    norm,            \* a call of normalizeListeners: its argument, its result, its position
    dur,             \* a duration taken to the wire format and back, and the position
    wdur,            \* a wire duration taken to time.Duration and back, and the position
    ovf,             \* a wire duration converted in a narrow word, and what came back
    disco,           \* the REST facade: what NewDiscoveryService returned, and the
                     \* last GET it served with the answer's status and body
    marshal,         \* a call of mustMarshalToString: its argument and its outcome
    bug,             \* a run of the bug-report command: gatherInfo's goroutines, wait
                     \* groups and timer, and the globals gErrors and logs
    cfg,             \* a call of overlayConfig: its arguments and its result
    cluster,         \* a call of GetClusterResources: the pods listed, the loop's
                     \* position and variable, and the Pod map built
    oprm             \* a run of operatorRemove: its inputs, its position, what it did

\* The variables of the helper calls.
toolVars == <<bug, cfg, cluster, oprm>>
helperVars == <<norm, dur, wdur, ovf, disco, marshal>>
utilVars == <<helperVars, toolVars>>

vars == <<initialRequest, discReq, receiveError, reqChannel, chanClosed, recvPc,
          recvReq, nRecv, mainPc, tickPending, sent, sendCalls, result, lastEvent,
          fetch, utilVars>>

streamVars == <<initialRequest, discReq, receiveError, reqChannel, chanClosed, recvPc,
                recvReq, nRecv, mainPc, tickPending, sent, sendCalls, result,
                lastEvent>>

----------------------------------------------------------------------------
(* Bounds *)

\* Number of requests the client sends on one stream.
MaxRecv == 2

\* Capacity of reqChannel: make(chan *xdsapi.DiscoveryRequest, 1).
ChanCap == 1

----------------------------------------------------------------------------
(* Values *)

Nil == "nil"

\* A node id is the sequence of its characters; only the separator matters,
\* so every run of other characters is one token.
GoodNodeId == <<"sidecar", "~", "10.0.0.5", "~", "svc.ns", "~", "ns.svc.cluster.local">>
GarbageNodeId == <<"garbage">>
NodeIds == {GoodNodeId, GarbageNodeId}

Nonces == {"", "n1"}

ErrorDetails == {"", "rejected"}

\* xdsapi.DiscoveryRequest, the fields the session protocol reads.
Requests == [nodeId : NodeIds, responseNonce : Nonces, errorDetail : ErrorDetails]

\* The nil *xdsapi.DiscoveryRequest: its getters return the zero values.
NilReq == [nodeId |-> <<>>, responseNonce |-> "", errorDetail |-> ""]

\* Errors stream.Recv can return.
RecvErrors == {"Canceled", "EOF", "Unavailable"}

\* The error stream.Send can return.
SendError == "SendFailed"

ParseError == "missing parts in the service node"

NotImplemented == "FetchListeners not implemented"

\* response := &xdsapi.DiscoveryResponse{}
EmptyResponse == [versionInfo |-> "", nonce |-> "", resources |-> <<>>]

----------------------------------------------------------------------------
(* model.ParseServiceNode *)

RECURSIVE CountSep(_)
CountSep(s) ==
    IF s = <<>> THEN 0
    ELSE (IF Head(s) = "~" THEN 1 ELSE 0) + CountSep(Tail(s))

\* strings.Split(s, "~") yields one part more than there are separators;
\* a service node has exactly four parts.
ParseServiceNode(id) ==
    IF CountSep(id) + 1 = 4
    THEN [node |-> id, err |-> Nil]
    ELSE [node |-> <<>>, err |-> ParseError]

WellFormed(id) == ParseServiceNode(id).err = Nil

----------------------------------------------------------------------------
(* FetchListeners *)

FetchListeners(in) ==
    IF ParseServiceNode(in.nodeId).err # Nil
    THEN [resp |-> Nil, err |-> ParseServiceNode(in.nodeId).err]
    ELSE [resp |-> Nil, err |-> NotImplemented]

Fetch ==
    /\ \E in \in Requests :
         fetch' = [called |-> TRUE, in |-> in,
                   resp |-> FetchListeners(in).resp, err |-> FetchListeners(in).err]
    /\ UNCHANGED <<streamVars, utilVars>>

----------------------------------------------------------------------------
(* StreamListeners: the ticker *)

\* time.Ticker delivers into a channel of capacity one and drops a tick that
\* finds it full; the deferred ticker.Stop() ends delivery once the loop returns.
TickerFire ==
    /\ mainPc # "Done"
    /\ ~tickPending
    /\ tickPending' = TRUE
    /\ UNCHANGED <<initialRequest, discReq, receiveError, reqChannel, chanClosed,
                   recvPc, recvReq, nRecv, mainPc, sent, sendCalls, result,
                   lastEvent, fetch, utilVars>>

----------------------------------------------------------------------------
(* StreamListeners: the receive goroutine *)

\* status.Code(err) == codes.Canceled || err == io.EOF
IsBenignMutEOF(err) == err = "Canceled"
IsBenignMutAll(err) == TRUE
IsBenign(err) == err = "Canceled" \/ err = "EOF"

\* req, err := stream.Recv() with err == nil
RecvRequest ==
    /\ recvPc = "Recv"
    /\ nRecv < MaxRecv
    /\ \E req \in Requests :
         /\ recvReq' = req
         /\ lastEvent' = [lastEvent EXCEPT !.received = Append(@, req)]
    /\ recvPc' = "Enqueue"
    /\ nRecv' = nRecv + 1
    /\ UNCHANGED <<initialRequest, discReq, receiveError, reqChannel, chanClosed,
                   mainPc, tickPending, sent, sendCalls, result, fetch, utilVars>>

\* RecvFailCloseFirst: the channel is closed before the error is recorded.
RecvFailCloseFirst ==
    \/ /\ recvPc = "Recv"
       /\ \E err \in RecvErrors : lastEvent' = [lastEvent EXCEPT !.recvErr = err]
       /\ chanClosed' = TRUE
       /\ recvPc' = "Record"
       /\ UNCHANGED <<initialRequest, discReq, receiveError, reqChannel, recvReq, nRecv,
                      mainPc, tickPending, sent, sendCalls, result, fetch, utilVars>>
    \/ /\ recvPc = "Record"
       /\ receiveError' = IF IsBenign(lastEvent.recvErr) THEN receiveError
                                                         ELSE lastEvent.recvErr
       /\ recvPc' = "Done"
       /\ UNCHANGED <<initialRequest, discReq, reqChannel, chanClosed, recvReq, nRecv,
                      mainPc, tickPending, sent, sendCalls, result, lastEvent, fetch,
                      utilVars>>

\* req, err := stream.Recv() with err != nil: record the error unless it is
\* benign, then return (the deferred close runs next).
RecvFail ==
    /\ recvPc = "Recv"
    /\ \E err \in RecvErrors :
         /\ receiveError' = IF IsBenign(err) THEN receiveError ELSE err
         /\ lastEvent' = [lastEvent EXCEPT !.recvErr = err]
    /\ recvPc' = "Close"
    /\ UNCHANGED <<initialRequest, discReq, reqChannel, chanClosed, recvReq, nRecv,
                   mainPc, tickPending, sent, sendCalls, result, fetch, utilVars>>

\* defer close(reqChannel)
RecvClose ==
    /\ recvPc = "Close"
    /\ chanClosed' = TRUE
    /\ recvPc' = "Done"
    /\ UNCHANGED <<initialRequest, discReq, receiveError, reqChannel, recvReq, nRecv,
                   mainPc, tickPending, sent, sendCalls, result, lastEvent, fetch, utilVars>>

\* RecvEnqueueAndAnswer: the receive goroutine answers the request itself.
RecvEnqueueAndAnswer ==
    /\ recvPc = "Enqueue"
    /\ Len(reqChannel) < ChanCap
    /\ reqChannel' = Append(reqChannel, recvReq)
    /\ recvReq' = NilReq
    /\ recvPc' = "Recv"
    /\ sent' = Append(sent, EmptyResponse)
    /\ sendCalls' = sendCalls + 1
    /\ UNCHANGED <<initialRequest, discReq, receiveError, chanClosed, nRecv, mainPc,
                   tickPending, result, lastEvent, fetch, utilVars>>

\* RecvEnqueueUnbounded: the channel takes any number of requests.
RecvEnqueueUnbounded ==
    /\ recvPc = "Enqueue"
    /\ reqChannel' = Append(reqChannel, recvReq)
    /\ recvReq' = NilReq
    /\ recvPc' = "Recv"
    /\ UNCHANGED <<initialRequest, discReq, receiveError, chanClosed, nRecv, mainPc,
                   tickPending, sent, sendCalls, result, lastEvent, fetch, utilVars>>

\* RecvEnqueueDropping: a request that finds the slot taken is dropped
\* (a send with a default case) instead of waiting for the slot.
RecvEnqueueDropping ==
    /\ recvPc = "Enqueue"
    /\ reqChannel' = IF Len(reqChannel) < ChanCap THEN Append(reqChannel, recvReq)
                                                  ELSE reqChannel
    /\ recvReq' = NilReq
    /\ recvPc' = "Recv"
    /\ UNCHANGED <<initialRequest, discReq, receiveError, chanClosed, nRecv, mainPc,
                   tickPending, sent, sendCalls, result, lastEvent, fetch, utilVars>>

\* reqChannel <- req : blocks while the single slot is taken
RecvEnqueue ==
    /\ recvPc = "Enqueue"
    /\ Len(reqChannel) < ChanCap
    /\ reqChannel' = Append(reqChannel, recvReq)
    /\ recvReq' = NilReq
    /\ recvPc' = "Recv"
    /\ UNCHANGED <<initialRequest, discReq, receiveError, chanClosed, nRecv, mainPc,
                   tickPending, sent, sendCalls, result, lastEvent, fetch, utilVars>>

----------------------------------------------------------------------------
(* StreamListeners: the main loop *)

\* case discReq, ok = <-reqChannel: "if !initialRequest { ...; continue }"
\* is skipped, i.e. the request reaches the send path, when initialRequest.
RespondToEveryRequest(req) == TRUE
RetryOnNack(req) == initialRequest \/ req.errorDetail # ""
RespondToStale(req) == initialRequest \/ req.responseNonce # ""
RequestFallsThrough(req) == initialRequest

\* case <-ticker.C: "if !initialRequest { continue }" is skipped when initialRequest.
PushOnEveryTick == TRUE
TickFallsThrough == initialRequest

\* if initialRequest { initialRequest = false }
KeepInitial == initialRequest
AfterFirstEvent == FALSE

\* A request taken from the handoff channel.
MainRecvRequest ==
    /\ mainPc = "Select"
    /\ reqChannel # <<>>
    /\ discReq' = Head(reqChannel)
    /\ reqChannel' = Tail(reqChannel)
    /\ lastEvent' = [lastEvent EXCEPT !.ev = "request", !.wasInitial = initialRequest,
                                      !.calls = sendCalls,
                                      !.delivered = Append(@, Head(reqChannel))]
    /\ IF RequestFallsThrough(Head(reqChannel))
       THEN /\ initialRequest' = AfterFirstEvent
            /\ mainPc' = "Send"
       ELSE /\ mainPc' = "Select"
            /\ UNCHANGED initialRequest
    /\ UNCHANGED <<receiveError, chanClosed, recvPc, recvReq, nRecv, tickPending,
                   sent, sendCalls, result, fetch, utilVars>>

\* The handoff channel is closed and drained: return receiveError.
MainRecvClosed ==
    /\ mainPc = "Select"
    /\ reqChannel = <<>>
    /\ chanClosed
    /\ discReq' = NilReq
    /\ result' = receiveError
    /\ mainPc' = "Done"
    /\ lastEvent' = [lastEvent EXCEPT !.ev = "closed", !.wasInitial = initialRequest,
                                      !.calls = sendCalls]
    /\ UNCHANGED <<initialRequest, receiveError, reqChannel, chanClosed, recvPc,
                   recvReq, nRecv, tickPending, sent, sendCalls, fetch, utilVars>>

\* MainTickAfterRecv: the loop looks at the ticker only once the receive side
\* has produced a request or closed the channel.
MainTickAfterRecv ==
    /\ mainPc = "Select"
    /\ tickPending
    /\ reqChannel # <<>> \/ chanClosed
    /\ tickPending' = FALSE
    /\ lastEvent' = [lastEvent EXCEPT !.ev = "tick", !.wasInitial = initialRequest,
                                      !.calls = sendCalls]
    /\ IF TickFallsThrough
       THEN /\ initialRequest' = AfterFirstEvent
            /\ mainPc' = "Send"
       ELSE /\ mainPc' = "Select"
            /\ UNCHANGED initialRequest
    /\ UNCHANGED <<discReq, receiveError, reqChannel, chanClosed, recvPc, recvReq,
                   nRecv, sent, sendCalls, result, fetch, utilVars>>

\* A tick taken from ticker.C.
MainTick ==
    /\ mainPc = "Select"
    /\ tickPending
    /\ tickPending' = FALSE
    /\ lastEvent' = [lastEvent EXCEPT !.ev = "tick", !.wasInitial = initialRequest,
                                      !.calls = sendCalls]
    /\ IF TickFallsThrough
       THEN /\ initialRequest' = AfterFirstEvent
            /\ mainPc' = "Send"
       ELSE /\ mainPc' = "Select"
            /\ UNCHANGED initialRequest
    /\ UNCHANGED <<discReq, receiveError, reqChannel, chanClosed, recvPc, recvReq,
                   nRecv, sent, sendCalls, result, fetch, utilVars>>

\* err := stream.Send(response) with err != nil: return err
\* (IgnoreSendError: the loop carries on instead).
IgnoreSendError ==
    /\ mainPc' = "Select"
    /\ UNCHANGED result
OnSendError ==
    /\ result' = SendError
    /\ mainPc' = "Done"

\* response := &xdsapi.DiscoveryResponse{}; err := stream.Send(response)
MainSend ==
    /\ mainPc = "Send"
    /\ sendCalls' = sendCalls + 1
    /\ \/ /\ sent' = Append(sent, EmptyResponse)
          /\ mainPc' = "Select"
          /\ UNCHANGED result
       \/ /\ OnSendError
          /\ UNCHANGED sent
    /\ UNCHANGED <<initialRequest, discReq, receiveError, reqChannel, chanClosed,
                   recvPc, recvReq, nRecv, tickPending, lastEvent, fetch, utilVars>>

----------------------------------------------------------------------------
(* normalizeListeners *)

\* Longest argument of normalizeListeners.
MaxListeners == 3

\* "10.0.0.2" and "10.0.0.5", as the sequences of their bytes.
Ip2 == <<49, 48, 46, 48, 46, 48, 46, 50>>
Ip5 == <<49, 48, 46, 48, 46, 48, 46, 53>>

\* api.Address with a SocketAddress: ip and port value.
Addresses ==
    {[ip |-> Ip2, port |-> 443], [ip |-> Ip5, port |-> 80], [ip |-> Ip2, port |-> 80]}

ListenerNames == {"a", "b"}

\* api.Listener: the address is its key, the name stands for the rest of it.
Listeners == [name : ListenerNames, address : Addresses]

ListenerSeqs == UNION {[1..n -> Listeners] : n \in 0..MaxListeners}

\* The decimal digits of n, as bytes.
RECURSIVE Digits(_)
Digits(n) ==
    IF n < 10 THEN <<48 + n>>
    ELSE Digits(n \div 10) \o <<48 + (n % 10)>>

\* listener.Address.String(): the text form of the address. The field names
\* are the same in every key; what differs is the quoted ip, closed by '"'
\* (34), and the port in decimal, closed by ' ' (32).
AddressString(a) == a.ip \o <<34>> \o Digits(a.port) \o <<32>>

\* s < t on Go strings: byte-wise, a proper prefix first.
RECURSIVE LexLess(_, _)
LexLess(s, t) ==
    IF t = <<>> THEN FALSE
    ELSE IF s = <<>> THEN TRUE
    ELSE IF Head(s) # Head(t) THEN Head(s) < Head(t)
    ELSE LexLess(Tail(s), Tail(t))

\* if !set[listener.Address.String()]
KeepAlways(set, key) == TRUE
KeepListener(set, key) == key \notin set

\* The loop over listeners: set is the map of keys seen, out the slice built.
RECURSIVE DedupFrom(_, _, _)
DedupFrom(listeners, set, out) ==
    IF listeners = <<>> THEN out
    ELSE LET listener == Head(listeners)
             key == AddressString(listener.address)
         IN  IF KeepListener(set, key)
             THEN DedupFrom(Tail(listeners), set \cup {key}, Append(out, listener))
             ELSE DedupFrom(Tail(listeners), set, out)

Reverse(s) == [i \in 1..Len(s) |-> s[Len(s) + 1 - i]]

\* DedupLastWins: a later listener replaces the one kept for its key.
DedupLastWins(listeners) == Reverse(DedupFrom(Reverse(listeners), {}, <<>>))
Dedup(listeners) == DedupFrom(listeners, {}, <<>>)

\* func(i, j int) bool { return out[i].Address.String() < out[j].Address.String() }
\* LessNumeric: ip first, then the port as a number.
LessNumeric(a, b) ==
    \/ LexLess(a.address.ip, b.address.ip)
    \/ a.address.ip = b.address.ip /\ a.address.port < b.address.port
Less(a, b) == LexLess(AddressString(a.address), AddressString(b.address))

RECURSIVE Insert(_, _)
Insert(l, sorted) ==
    IF sorted = <<>> THEN <<l>>
    ELSE IF Less(l, Head(sorted)) THEN <<l>> \o sorted
    ELSE <<Head(sorted)>> \o Insert(l, Tail(sorted))

\* sort.Slice(out, less). sort.Slice is not stable, but the keys of out are
\* distinct after the loop, so the sorted order is the only one there is.
SortNone(out) == out
RECURSIVE SortSlice(_)
SortSlice(out) ==
    IF out = <<>> THEN <<>>
    ELSE Insert(Head(out), SortSlice(Tail(out)))

normalizeListeners(listeners) == SortSlice(Dedup(listeners))

\* One call: out is a new slice, the argument is kept.
Normalize ==
    /\ norm.pc = "ready"
    /\ norm' = [in |-> norm.in, out |-> normalizeListeners(norm.in), pc |-> "done"]
    /\ UNCHANGED <<streamVars, fetch, dur, wdur, ovf, disco, marshal, toolVars>>

----------------------------------------------------------------------------
(* Duration conversions *)

\* 1e9: nanoseconds in time.Second.
NanosPerSecond == 1000000000

\* The durations converted: up to MaxQuarters quarters of a second either
\* way, and up to Jitter nanoseconds off each.
MaxQuarters == 7
Jitter == 2

Durations ==
    {k * (NanosPerSecond \div 4) + j :
        k \in -MaxQuarters..MaxQuarters, j \in -Jitter..Jitter}

\* Go's integer division truncates toward zero (b > 0).
TruncDiv(a, b) == IF a >= 0 THEN a \div b ELSE -((-a) \div b)

Abs(x) == IF x >= 0 THEN x ELSE -x

\* protoDurationToTimeDuration:
\* time.Duration(d.Nanos) + time.Second*time.Duration(d.Seconds)
protoDurationToTimeDuration(d) == d.nanos + NanosPerSecond * d.seconds

\* durationToProto: secs := nanos / 1e9; nanos -= secs * 1e9
\* (durationToProtoAbsNanos: the remainder loses its sign).
durationToProtoAbsNanos(d) ==
    LET secs == TruncDiv(d, NanosPerSecond)
    IN  [seconds |-> secs, nanos |-> Abs(d - secs * NanosPerSecond)]
\* (durationToProtoFloor: the division rounds down instead of toward zero.)
durationToProtoFloor(d) ==
    [seconds |-> d \div NanosPerSecond, nanos |-> d % NanosPerSecond]
durationToProto(d) ==
    LET secs == TruncDiv(d, NanosPerSecond)
    IN  [seconds |-> secs, nanos |-> d - secs * NanosPerSecond]

ToProto ==
    /\ dur.pc = "ready"
    /\ dur' = [dur EXCEPT !.wire = durationToProto(dur.d), !.pc = "wire"]
    /\ UNCHANGED <<streamVars, fetch, norm, wdur, ovf, disco, marshal, toolVars>>

FromProto ==
    /\ dur.pc = "wire"
    /\ dur' = [dur EXCEPT !.back = protoDurationToTimeDuration(dur.wire), !.pc = "done"]
    /\ UNCHANGED <<streamVars, fetch, norm, wdur, ovf, disco, marshal, toolVars>>

----------------------------------------------------------------------------
(* Wire durations: protoDurationToTimeDuration, then durationToProto *)

\* The wire durations converted: whole seconds up to MaxWireSecs either way,
\* and a nanosecond field of up to MaxWireHalves half seconds either way and
\* Jitter nanoseconds off, of any sign, so the field may oppose the seconds or
\* reach a whole second and more. The total stays within two seconds either
\* way, which keeps every sum inside TLC's integers.
MaxWireSecs == 1
MaxWireHalves == 2

WireDurations ==
    {[seconds |-> t[1], nanos |-> t[2] * (NanosPerSecond \div 2) + t[3]] :
        t \in {u \in (-MaxWireSecs..MaxWireSecs) \X (-MaxWireHalves..MaxWireHalves)
                        \X (-Jitter..Jitter) : Abs(2 * u[1] + u[2]) <= 4}}

ZeroWire == [seconds |-> 0, nanos |-> 0]

FromWire ==
    /\ wdur.pc = "ready"
    /\ wdur' = [wdur EXCEPT !.d = protoDurationToTimeDuration(wdur.wire), !.pc = "internal"]
    /\ UNCHANGED <<streamVars, fetch, norm, dur, ovf, disco, marshal, toolVars>>

BackToWire ==
    /\ wdur.pc = "internal"
    /\ wdur' = [wdur EXCEPT !.back = durationToProto(wdur.d), !.pc = "done"]
    /\ UNCHANGED <<streamVars, fetch, norm, dur, ovf, disco, marshal, toolVars>>

----------------------------------------------------------------------------
(* Wire durations beyond the range of time.Duration *)

\* time.Duration is an int64 count of nanoseconds and Go's integer arithmetic
\* wraps around silently. The sums are taken here in a word of ScaledBits bits
\* with ScaledSecond units to the second, so that totals beyond the word are
\* within reach: ScaledBits stands for 64 and ScaledSecond for 1e9.
ScaledBits == 8
ScaledSecond == 10
MaxScaledSecs == 30
MaxScaledNanos == 12

\* The value of x in a two's complement word of `bits` bits.
WrapSigned(x, bits) ==
    LET r == x % (2 ^ bits)
    IN  IF r >= 2 ^ (bits - 1) THEN r - 2 ^ bits ELSE r

ScaledWires == [seconds : -MaxScaledSecs..MaxScaledSecs,
                nanos : -MaxScaledNanos..MaxScaledNanos]

\* protoDurationToTimeDuration and durationToTimeDuration in that word:
\* time.Duration(d.Nanos) + time.Second*time.Duration(d.Seconds). Neither
\* has an error result, and an integer overflow does not panic.
protoDurationToTimeDurationScaled(d) ==
    [value |-> WrapSigned(d.nanos + ScaledSecond * d.seconds, ScaledBits),
     err |-> Nil, panicked |-> FALSE]
durationToTimeDurationScaled(d) ==
    [value |-> WrapSigned(d.nanos + ScaledSecond * d.seconds, ScaledBits),
     err |-> Nil, panicked |-> FALSE]

ConvertProtoDuration ==
    /\ ovf.pc = "ready"
    /\ ovf' = [ovf EXCEPT !.fn = "protoDurationToTimeDuration",
                          !.out = protoDurationToTimeDurationScaled(ovf.wire),
                          !.pc = "done"]
    /\ UNCHANGED <<streamVars, fetch, norm, dur, wdur, disco, marshal, toolVars>>

ConvertPtypesDuration ==
    /\ ovf.pc = "ready"
    /\ ovf' = [ovf EXCEPT !.fn = "durationToTimeDuration",
                          !.out = durationToTimeDurationScaled(ovf.wire),
                          !.pc = "done"]
    /\ UNCHANGED <<streamVars, fetch, norm, dur, wdur, disco, marshal, toolVars>>

----------------------------------------------------------------------------
(* mustMarshalToString *)

\* Go values handed to the marshaler: a string (its bytes), a number, and a
\* channel and a function, which encoding/json does not support.
JsonValues ==
    {[kind |-> "string", val |-> <<109, 120>>],
     [kind |-> "string", val |-> <<>>],
     [kind |-> "number", val |-> <<42>>],
     [kind |-> "number", val |-> <<0>>],
     [kind |-> "chan", val |-> <<>>],
     [kind |-> "func", val |-> <<>>]}

UnsupportedType == "json: unsupported type"

\* oldjson.Marshal(i): a string between double quotes (34), a number in
\* decimal, and an UnsupportedTypeError for a channel or a function.
Marshal(i) ==
    CASE i.kind = "string" -> [s |-> <<34>> \o i.val \o <<34>>, err |-> Nil]
      [] i.kind = "number" -> [s |-> Digits(i.val[1]), err |-> Nil]
      [] OTHER -> [s |-> <<>>, err |-> UnsupportedType]

\* s, err := oldjson.Marshal(i); if err != nil { panic(err) }; return string(s)
\* (mustMarshalToStringSwallow: the error is dropped and the empty string returned.)
mustMarshalToStringSwallow(i) == [s |-> Marshal(i).s, panic |-> Nil]
mustMarshalToString(i) ==
    IF Marshal(i).err # Nil
    THEN [s |-> <<>>, panic |-> Marshal(i).err]
    ELSE [s |-> Marshal(i).s, panic |-> Nil]

MarshalToString ==
    /\ marshal.pc = "ready"
    /\ marshal' = [marshal EXCEPT !.out = mustMarshalToString(marshal.in), !.pc = "done"]
    /\ UNCHANGED <<streamVars, fetch, norm, dur, wdur, ovf, disco, toolVars>>

----------------------------------------------------------------------------
(* The REST facade: NewDiscoveryService and ListListenersV2 *)

\* What v1.NewDiscoveryService returns as its error.
V1Failed == "v1 discovery service failed"
V1Outcomes == {Nil, V1Failed}

\* ds1, err := v1.NewDiscoveryService(...); if err != nil { return nil, nil };
\* out.dsV1 = ds1; return out, nil
NewDiscoveryService(v1err) ==
    IF v1err # Nil
    THEN [ds |-> Nil, err |-> Nil]
    ELSE [ds |-> "DiscoveryService", err |-> Nil]

Construct ==
    /\ disco.ctor = "none"
    /\ \E v1err \in V1Outcomes :
         disco' = [disco EXCEPT !.ctor = "returned", !.v1err = v1err,
                                !.ds = NewDiscoveryService(v1err).ds,
                                !.err = NewDiscoveryService(v1err).err]
    /\ UNCHANGED <<streamVars, fetch, norm, dur, wdur, ovf, marshal, toolVars>>

\* net/http status codes.
StatusOK == 200
StatusNotFound == 404
StatusInternalServerError == 500
StatusServiceUnavailable == 503

\* The registry behind model.Environment: whether Services() and
\* GetProxyServiceInstances() fail, and the listeners built otherwise.
Environments ==
    [servicesError : BOOLEAN, instancesError : BOOLEAN,
     listeners : {s \in ListenerSeqs : Len(s) <= 1}]
NoEnvironment == [servicesError |-> FALSE, instancesError |-> FALSE, listeners |-> <<>>]

BackendError == "service discovery failed"

\* ds.dsV1.ParseDiscoveryRequest(request): the {node} path parameter parsed
\* as a service node.
ParseDiscoveryRequest(node) == ParseServiceNode(node)

\* ListListenersResponse(ds.Environment, svcNode): fails when the registry does.
ListListenersResponse(env, node) ==
    IF env.servicesError \/ env.instancesError
    THEN [out |-> <<>>, err |-> BackendError]
    ELSE [out |-> env.listeners, err |-> Nil]

\* ListListenersV2: 404 when the request does not parse, 500 when
\* ListListenersResponse fails, otherwise the response written by
\* v1.WriteResponse.
ListListenersV2(node, env) ==
    IF ParseDiscoveryRequest(node).err # Nil
    THEN [status |-> StatusNotFound,
          body |-> <<"LDS ", ParseDiscoveryRequest(node).err>>]
    ELSE IF ListListenersResponse(env, node).err # Nil
    THEN [status |-> StatusInternalServerError,
          body |-> <<"LDS ", ListListenersResponse(env, node).err>>]
    ELSE [status |-> StatusOK, body |-> ListListenersResponse(env, node).out]

\* GET /v2/listeners/{cluster}/{node} on a constructed service.
ServeListeners ==
    /\ disco.ctor = "returned"
    /\ disco.ds # Nil
    /\ \E node \in NodeIds, env \in Environments :
         disco' = [disco EXCEPT !.served = TRUE, !.node = node, !.env = env,
                                !.status = ListListenersV2(node, env).status,
                                !.body = ListListenersV2(node, env).body]
    /\ UNCHANGED <<streamVars, fetch, norm, dur, wdur, ovf, marshal, toolVars>>

----------------------------------------------------------------------------
(* bug-report: runBugReportCommand and gatherInfo *)

\* The container paths handed to gatherInfo, by what the switch makes of them:
\* an istio-proxy container, the discovery container of an istiod pod, any
\* other container, and a path cluster2.ParsePath rejects.
MaxPaths == 2
PathKinds == {"istio-proxy", "discovery", "other", "bad"}
PathSeqs == UNION {[1..n -> PathKinds] : n \in 0..MaxPaths}

\* The getFromCluster calls made for every run: GetK8sResources, GetCRs,
\* GetEvents, GetClusterInfo, GetSecrets, GetDescribePods.
FixedFetches == 6

\* Goroutines a path adds to mandatoryWg: GetCoredumps for a proxy,
\* GetIstiodInfo and getIstiodLogs for istiod.
MandatoryOf(kind) ==
    CASE kind = "istio-proxy" -> 1
      [] kind = "discovery" -> 2
      [] OTHER -> 0

RECURSIVE SumMandatory(_)
SumMandatory(paths) ==
    IF paths = <<>> THEN 0
    ELSE MandatoryOf(Head(paths)) + SumMandatory(Tail(paths))

\* The paths for which getProxyLogs starts a goroutine on optionalWg.
ProxyPaths(paths) == {i \in 1..Len(paths) : paths[i] = "istio-proxy"}

\* gatherInfo up to mandatoryWg.Wait(): cmdTimer was created on entry, every
\* goroutine is started and counted in its wait group.
Launch ==
    /\ bug.pc = "launch"
    /\ bug' = [bug EXCEPT !.pc = "waitMandatory",
                          !.mandatoryWg = FixedFetches + SumMandatory(bug.paths),
                          !.optionalWg = Cardinality(ProxyPaths(bug.paths)),
                          !.opt = [i \in 1..Len(bug.paths) |->
                                      IF i \in ProxyPaths(bug.paths) THEN "fetch" ELSE "none"]]
    /\ UNCHANGED <<streamVars, fetch, helperVars, cfg, cluster, oprm>>

\* cmdTimer fires: the runtime puts the time into cmdTimer.C (capacity one).
TimerFire ==
    /\ bug.pc # "idle"
    /\ bug.timer = "armed"
    /\ bug' = [bug EXCEPT !.timer = "fired", !.timerC = TRUE]
    /\ UNCHANGED <<streamVars, fetch, helperVars, cfg, cluster, oprm>>

\* A goroutine of mandatoryWg runs to its end: f(params) or getLog,
\* appendGlobalErr(err) under lock, the file written, wg.Done().
MandatoryDone ==
    /\ bug.mandatoryWg > 0
    /\ \E failed \in BOOLEAN :
         bug' = [bug EXCEPT !.mandatoryWg = @ - 1,
                            !.gErrors = IF failed THEN @ + 1 ELSE @]
    /\ UNCHANGED <<streamVars, fetch, helperVars, cfg, cluster, oprm>>

\* getProxyLogs goroutine: clog, cstat, imp, err := getLog(...);
\* appendGlobalErr(err)
ProxyLogFetch ==
    /\ \E i \in DOMAIN bug.opt, failed \in BOOLEAN :
         /\ bug.opt[i] = "fetch"
         /\ bug' = [bug EXCEPT !.opt[i] = IF failed THEN "skip" ELSE "store",
                               !.gErrors = IF failed THEN @ + 1 ELSE @]
    /\ UNCHANGED <<streamVars, fetch, helperVars, cfg, cluster, oprm>>

\* getProxyLogs goroutine: lock.Lock(); if err == nil { logs[path], ... = ... };
\* lock.Unlock(); then the deferred wg.Done().
ProxyLogStore ==
    /\ \E i \in DOMAIN bug.opt :
         /\ bug.opt[i] \in {"store", "skip"}
         /\ bug' = [bug EXCEPT !.opt[i] = "done",
                               !.logs = IF bug.opt[i] = "store" THEN @ \cup {i} ELSE @,
                               !.optionalWg = @ - 1]
    /\ UNCHANGED <<streamVars, fetch, helperVars, cfg, cluster, oprm>>

\* mandatoryWg.Wait() returns when the counter is zero
\* (MandatoryWaitOverOrTimeout: or when the timer has fired).
MandatoryWaitOverOrTimeout == bug.mandatoryWg = 0 \/ bug.timerC
MandatoryWaitOver == bug.mandatoryWg = 0

\* mandatoryWg.Wait(); go func() { optionalWg.Wait(); cmdTimer.Stop() }()
MandatoryWait ==
    /\ bug.pc = "waitMandatory"
    /\ MandatoryWaitOver
    /\ bug' = [bug EXCEPT !.pc = "waitTimer", !.waiter = "wait"]
    /\ UNCHANGED <<streamVars, fetch, helperVars, cfg, cluster, oprm>>

\* The goroutine started last: optionalWg.Wait() returns.
WaiterWait ==
    /\ bug.waiter = "wait"
    /\ bug.optionalWg = 0
    /\ bug' = [bug EXCEPT !.waiter = "stop"]
    /\ UNCHANGED <<streamVars, fetch, helperVars, cfg, cluster, oprm>>

\* cmdTimer.Stop(): a timer that has not fired will not fire; nothing is sent
\* on cmdTimer.C and the channel is not closed.
WaiterStop ==
    /\ bug.waiter = "stop"
    /\ bug' = [bug EXCEPT !.waiter = "done",
                          !.timer = IF @ = "armed" THEN "stopped" ELSE @]
    /\ UNCHANGED <<streamVars, fetch, helperVars, cfg, cluster, oprm>>

\* <-cmdTimer.C, and gatherInfo returns.
GatherReturn ==
    /\ bug.pc = "waitTimer"
    /\ bug.timerC
    /\ bug' = [bug EXCEPT !.pc = "readErrors", !.timerC = FALSE]
    /\ UNCHANGED <<streamVars, fetch, helperVars, cfg, cluster, oprm>>

\* runBugReportCommand: if len(gErrors) != 0 { log.Errora(...) }, read
\* without lock.
ReadErrors ==
    /\ bug.pc = "readErrors"
    /\ bug' = [bug EXCEPT !.pc = "iterLogs", !.seenErrors = bug.gErrors]
    /\ UNCHANGED <<streamVars, fetch, helperVars, cfg, cluster, oprm>>

\* runBugReportCommand: for path, text := range logs { writeFile(...) }, read
\* without lock. While a getProxyLogs goroutine can still write the map the
\* iteration races with it: the runtime may end the process ("concurrent map
\* iteration and map write"), or the loop sees some of the entries.
IterateLogs ==
    /\ bug.pc = "iterLogs"
    /\ \/ bug' = [bug EXCEPT !.pc = "done", !.written = bug.logs]
       \/ /\ \E i \in DOMAIN bug.opt : bug.opt[i] \in {"fetch", "store"}
          /\ \/ bug' = [bug EXCEPT !.pc = "crashed"]
             \/ \E seen \in SUBSET {i \in DOMAIN bug.opt : bug.opt[i] # "none"} :
                  bug' = [bug EXCEPT !.pc = "done", !.written = seen]
    /\ UNCHANGED <<streamVars, fetch, helperVars, cfg, cluster, oprm>>

----------------------------------------------------------------------------
(* bug-report: parseConfig and overlayConfig *)

\* A BugReportConfig: a value for each field, 0 being the zero value, which
\* json.Marshal leaves out.
ConfigFields == {"istioNamespace", "dryRun", "commandTimeout"}
MaxValue == 2
Configs == [ConfigFields -> 0..MaxValue]

\* json.Marshal of a config: the object of its set fields.
JsonOf(c) == [f \in {g \in ConfigFields : c[g] # 0} |-> c[f]]

\* jsonpatch.MergePatch(doc, patch): the members of the patch replace those
\* of the document, the other members of the document stay.
MergePatch(doc, patch) ==
    [f \in (DOMAIN doc) \cup (DOMAIN patch) |->
        IF f \in DOMAIN patch THEN patch[f] ELSE doc[f]]

\* json.Unmarshal into a fresh BugReportConfig.
ConfigOf(j) == [f \in ConfigFields |-> IF f \in DOMAIN j THEN j[f] ELSE 0]

\* bj, err := json.Marshal(base); oj, err := json.Marshal(base);
\* mj, err := jsonpatch.MergePatch(bj, oj); json.Unmarshal(mj, out)
overlayConfig(base, overlay) == ConfigOf(MergePatch(JsonOf(base), JsonOf(base)))

\* parseConfig: with a config file, gConfig, err = overlayConfig(gConfig,
\* fileConfig); without one gConfig is returned as the flags set it.
ParseConfig ==
    /\ cfg.pc = "ready"
    /\ cfg' = [cfg EXCEPT !.pc = "done",
                          !.out = IF cfg.hasFile THEN overlayConfig(cfg.base, cfg.overlay)
                                                 ELSE cfg.base]
    /\ UNCHANGED <<streamVars, fetch, helperVars, bug, cluster, oprm>>

----------------------------------------------------------------------------
(* bug-report: GetClusterResources and Resources.ContainerRestarts *)

\* The pods of a cluster: a name, whether getOwnerDeployment finds a
\* Deployment for it, and the restart count of its istio-proxy container.
MaxPods == 2
MaxRestarts == 1
PodNames == {"a", "b", "c"}
Pods == [name : PodNames, owned : BOOLEAN, restarts : 0..MaxRestarts]
NoPod == [name |-> "", owned |-> FALSE, restarts |-> 0]

PodLists ==
    {l \in UNION {[1..n -> Pods] : n \in 0..MaxPods} :
        \A i, j \in 1..Len(l) : i # j => l[i].name # l[j].name}

\* Two namespaces, no pod name used twice.
Clusters ==
    {ns \in [1..2 -> PodLists] :
        \A i \in 1..Len(ns[1]), j \in 1..Len(ns[2]) : ns[1][i].name # ns[2][j].name}

\* One turn of "for _, p := range pods.Items": p is one variable for the whole
\* loop over a namespace and takes the value of the next pod; a pod without a
\* Deployment is skipped; otherwise out.Pod[p.Name] = &p stores the address
\* of that variable, named here by its namespace.
VisitPod ==
    /\ cluster.pc = "loop"
    /\ cluster.i <= Len(cluster.ns[cluster.n])
    /\ LET pod == cluster.ns[cluster.n][cluster.i]
       IN  cluster' = [cluster EXCEPT
               !.i = @ + 1,
               !.p[cluster.n] = pod,
               !.errs = IF pod.owned THEN @ ELSE @ + 1,
               !.Pod = IF pod.owned
                       THEN [name \in (DOMAIN @) \cup {pod.name} |->
                                IF name = pod.name THEN cluster.n ELSE @[name]]
                       ELSE @]
    /\ UNCHANGED <<streamVars, fetch, helperVars, bug, cfg, oprm>>

\* for _, ns := range namespaces.Items: on to the next namespace.
NextNamespace ==
    /\ cluster.pc = "loop"
    /\ cluster.i > Len(cluster.ns[cluster.n])
    /\ cluster.n < Len(cluster.ns)
    /\ cluster' = [cluster EXCEPT !.n = @ + 1, !.i = 1]
    /\ UNCHANGED <<streamVars, fetch, helperVars, bug, cfg, oprm>>

\* return out, nil
ReturnResources ==
    /\ cluster.pc = "loop"
    /\ cluster.i > Len(cluster.ns[cluster.n])
    /\ cluster.n = Len(cluster.ns)
    /\ cluster' = [cluster EXCEPT !.pc = "returned"]
    /\ UNCHANGED <<streamVars, fetch, helperVars, bug, cfg, oprm>>

\* *r.Pod[pod]: the pod the stored address leads to.
PodAt(name) == cluster.p[cluster.Pod[name]]

\* Resources.ContainerRestarts(pod, container)
ContainerRestarts(pod, container) ==
    IF pod \notin DOMAIN cluster.Pod THEN 0
    ELSE IF container = "istio-proxy" THEN PodAt(pod).restarts
    ELSE 0

----------------------------------------------------------------------------
(* operator remove *)

\* What operatorRemove meets: whether isControllerInstalled reports a
\* controller and an error, the --force flag, and whether
\* renderOperatorManifest, InitK8SRestClient and the deleter succeed.
RemoveRuns ==
    [installed : BOOLEAN, checkErr : BOOLEAN, force : BOOLEAN,
     renderOk : BOOLEAN, clientOk : BOOLEAN, deleteOk : BOOLEAN]

\* if !installed { ...; if !orArgs.force { l.LogAndFatal("Aborting, ...") } }
\* (NeverAbort: the run goes on without a controller and without --force.)
NeverAbort == FALSE
AbortWithoutController == ~oprm.run.installed /\ ~oprm.run.force

\* installed, err := isControllerInstalled(...) and the two checks after it;
\* l.LogAndFatal ends the process.
CheckInstalled ==
    /\ oprm.pc = "check"
    /\ oprm' = [oprm EXCEPT !.pc =
           IF oprm.run.installed /\ oprm.run.checkErr THEN "fatal"
           ELSE IF AbortWithoutController THEN "fatal"
           ELSE "render"]
    /\ UNCHANGED <<streamVars, fetch, helperVars, bug, cfg, cluster>>

\* _, mstr, err := renderOperatorManifest(...); if err != nil { l.LogAndFatal(err) }
RenderManifest ==
    /\ oprm.pc = "render"
    /\ oprm' = [oprm EXCEPT !.rendered = TRUE,
                            !.pc = IF oprm.run.renderOk THEN "client" ELSE "fatal"]
    /\ UNCHANGED <<streamVars, fetch, helperVars, bug, cfg, cluster>>

\* if _, _, err := InitK8SRestClient(...); err != nil { l.LogAndFatal(err) }
InitClient ==
    /\ oprm.pc = "client"
    /\ oprm' = [oprm EXCEPT !.pc = IF oprm.run.clientOk THEN "delete" ELSE "fatal"]
    /\ UNCHANGED <<streamVars, fetch, helperVars, bug, cfg, cluster>>

\* success := deleteManifestFunc(mstr, "Operator", opts, l)
DeleteManifest ==
    /\ oprm.pc = "delete"
    /\ oprm' = [oprm EXCEPT !.deleterCalls = @ + 1,
                            !.pc = IF oprm.run.deleteOk THEN "success" ELSE "errors"]
    /\ UNCHANGED <<streamVars, fetch, helperVars, bug, cfg, cluster>>

----------------------------------------------------------------------------
(* Specification *)

StreamInit ==
    /\ initialRequest = TRUE
    /\ discReq = NilReq
    /\ receiveError = Nil
    /\ reqChannel = <<>>
    /\ chanClosed = FALSE
    /\ recvPc = "Recv"
    /\ recvReq = NilReq
    /\ nRecv = 0
    /\ mainPc = "Select"
    /\ tickPending = FALSE
    /\ sent = <<>>
    /\ sendCalls = 0
    /\ result = "running"
    /\ lastEvent = [ev |-> "none", wasInitial |-> TRUE, calls |-> 0, recvErr |-> Nil,
                    received |-> <<>>, delivered |-> <<>>]
    /\ fetch = [called |-> FALSE, in |-> NilReq, resp |-> Nil, err |-> Nil]

\* No helper call is under way.
NormIdle == [in |-> <<>>, out |-> <<>>, pc |-> "idle"]
DurIdle == [d |-> 0, wire |-> [seconds |-> 0, nanos |-> 0], back |-> 0, pc |-> "idle"]
WdurIdle == [wire |-> ZeroWire, d |-> 0, back |-> ZeroWire, pc |-> "idle"]
OvfIdle == [wire |-> ZeroWire, fn |-> "none",
            out |-> [value |-> 0, err |-> Nil, panicked |-> FALSE], pc |-> "idle"]
MarshalIdle == [in |-> [kind |-> "string", val |-> <<>>],
                out |-> [s |-> <<>>, panic |-> Nil], pc |-> "idle"]
DiscoIdle == [ctor |-> "none", v1err |-> Nil, ds |-> Nil, err |-> Nil,
              served |-> FALSE, node |-> <<>>, env |-> NoEnvironment,
              status |-> 0, body |-> <<>>]

BugIdle == [pc |-> "idle", paths |-> <<>>, mandatoryWg |-> 0, optionalWg |-> 0,
            opt |-> <<>>, timer |-> "armed", timerC |-> FALSE, waiter |-> "none",
            gErrors |-> 0, logs |-> {}, seenErrors |-> 0, written |-> {}]
CfgIdle == [base |-> [f \in ConfigFields |-> 0], overlay |-> [f \in ConfigFields |-> 0],
            hasFile |-> FALSE, out |-> [f \in ConfigFields |-> 0], pc |-> "idle"]
ClusterIdle == [ns |-> <<<<>>, <<>>>>, n |-> 1, i |-> 1, p |-> <<NoPod, NoPod>>,
                Pod |-> <<>>, errs |-> 0, pc |-> "idle"]
OprmIdle == [run |-> [installed |-> FALSE, checkErr |-> FALSE, force |-> FALSE,
                      renderOk |-> FALSE, clientOk |-> FALSE, deleteOk |-> FALSE],
             rendered |-> FALSE, deleterCalls |-> 0, pc |-> "idle"]

\* Nothing but the helper calls of one specification is under way.
HelpersIdle(except) ==
    /\ "norm" \in except \/ norm = NormIdle
    /\ "dur" \in except \/ dur = DurIdle
    /\ "wdur" \in except \/ wdur = WdurIdle
    /\ "ovf" \in except \/ ovf = OvfIdle
    /\ "disco" \in except \/ disco = DiscoIdle
    /\ "marshal" \in except \/ marshal = MarshalIdle
    /\ "bug" \in except \/ bug = BugIdle
    /\ "cfg" \in except \/ cfg = CfgIdle
    /\ "cluster" \in except \/ cluster = ClusterIdle
    /\ "oprm" \in except \/ oprm = OprmIdle

Init ==
    /\ StreamInit
    /\ HelpersIdle({})

Next ==
    \/ TickerFire
    \/ RecvRequest
    \/ RecvFail
    \/ RecvClose
    \/ RecvEnqueue
    \/ MainRecvRequest
    \/ MainRecvClosed
    \/ MainTick
    \/ MainSend
    \/ Fetch

Spec == Init /\ [][Next]_vars

\* Calls of normalizeListeners on every argument of up to MaxListeners listeners.
NormInit ==
    /\ StreamInit
    /\ norm \in {[in |-> s, out |-> <<>>, pc |-> "ready"] : s \in ListenerSeqs}
    /\ HelpersIdle({"norm"})

NormNext == Normalize

NormSpec == NormInit /\ [][NormNext]_vars

\* Every duration of Durations taken to the wire format and back.
DurInit ==
    /\ StreamInit
    /\ dur \in {[DurIdle EXCEPT !.d = d, !.pc = "ready"] : d \in Durations}
    /\ HelpersIdle({"dur"})

DurNext ==
    \/ ToProto
    \/ FromProto

DurSpec == DurInit /\ [][DurNext]_vars

\* Every wire duration of WireDurations taken to time.Duration and back.
WireInit ==
    /\ StreamInit
    /\ wdur \in {[WdurIdle EXCEPT !.wire = w, !.pc = "ready"] : w \in WireDurations}
    /\ HelpersIdle({"wdur"})

WireNext ==
    \/ FromWire
    \/ BackToWire

WireSpec == WireInit /\ [][WireNext]_vars

\* Every wire duration of ScaledWires converted by either function.
OverflowInit ==
    /\ StreamInit
    /\ ovf \in {[OvfIdle EXCEPT !.wire = w, !.pc = "ready"] : w \in ScaledWires}
    /\ HelpersIdle({"ovf"})

OverflowNext ==
    \/ ConvertProtoDuration
    \/ ConvertPtypesDuration

OverflowSpec == OverflowInit /\ [][OverflowNext]_vars

\* The facade constructed and serving GETs, and mustMarshalToString called on
\* every value of JsonValues.
RestInit ==
    /\ StreamInit
    /\ marshal \in {[MarshalIdle EXCEPT !.in = i, !.pc = "ready"] : i \in JsonValues}
    /\ HelpersIdle({"marshal"})

RestNext ==
    \/ Construct
    \/ ServeListeners
    \/ MarshalToString

RestSpec == RestInit /\ [][RestNext]_vars

\* The bug-report command from the call of gatherInfo on, for every list of
\* up to MaxPaths container paths.
BugInit ==
    /\ StreamInit
    /\ bug \in {[BugIdle EXCEPT !.pc = "launch", !.paths = ps] : ps \in PathSeqs}
    /\ HelpersIdle({"bug"})

BugNext ==
    \/ Launch
    \/ TimerFire
    \/ MandatoryDone
    \/ ProxyLogFetch
    \/ ProxyLogStore
    \/ MandatoryWait
    \/ WaiterWait
    \/ WaiterStop
    \/ GatherReturn
    \/ ReadErrors
    \/ IterateLogs

BugSpec == BugInit /\ [][BugNext]_vars

\* parseConfig for every pair of a flag config and a file config, with and
\* without a config file.
ConfigInit ==
    /\ StreamInit
    /\ cfg \in {[CfgIdle EXCEPT !.base = b, !.overlay = o, !.hasFile = h, !.pc = "ready"] :
                   b \in Configs, o \in Configs, h \in BOOLEAN}
    /\ HelpersIdle({"cfg"})

ConfigNext == ParseConfig

ConfigSpec == ConfigInit /\ [][ConfigNext]_vars

\* GetClusterResources on every cluster of Clusters.
ClusterInit ==
    /\ StreamInit
    /\ cluster \in {[ClusterIdle EXCEPT !.ns = ns, !.pc = "loop"] : ns \in Clusters}
    /\ HelpersIdle({"cluster"})

ClusterNext ==
    \/ VisitPod
    \/ NextNamespace
    \/ ReturnResources

ClusterSpec == ClusterInit /\ [][ClusterNext]_vars

\* operatorRemove in every situation of RemoveRuns.
RemoveInit ==
    /\ StreamInit
    /\ oprm \in {[OprmIdle EXCEPT !.run = r, !.pc = "check"] : r \in RemoveRuns}
    /\ HelpersIdle({"oprm"})

RemoveNext ==
    \/ CheckInstalled
    \/ RenderManifest
    \/ InitClient
    \/ DeleteManifest

RemoveSpec == RemoveInit /\ [][RemoveNext]_vars

----------------------------------------------------------------------------
(* Vocabulary of the session protocol *)

AwaitingInitial == initialRequest /\ mainPc # "Done"
Active == ~initialRequest /\ mainPc # "Done"

\* The nonce of the last response sent ("" when none was sent).
LastNonce == IF sent = <<>> THEN "" ELSE sent[Len(sent)].nonce

IsAck(req) == req.responseNonce = LastNonce /\ req.errorDetail = ""
IsNack(req) == req.responseNonce = LastNonce /\ req.errorDetail # ""
IsStale(req) == req.responseNonce # LastNonce

\* The main loop's last select case was a request / a tick, taken while the
\* session was awaiting its initial request / was active.
TookRequest(initial) == lastEvent.ev = "request" /\ lastEvent.wasInitial = initial
TookTick(initial) == lastEvent.ev = "tick" /\ lastEvent.wasInitial = initial

\* Nothing was sent, and nothing is about to be sent, in reaction to the last
\* select case.
NoSendInReaction == sendCalls = lastEvent.calls /\ mainPc = "Select"

----------------------------------------------------------------------------
(* Properties *)

\* C1: a timer tick taken while the session is still awaiting its initial
\* request is a no-op: nothing is sent and the session stays AwaitingInitial.
C1_TickWhileAwaitingIsNoOp ==
    TookTick(TRUE) => initialRequest /\ NoSendInReaction

\* C2: a request with a well-formed node id taken while AwaitingInitial makes
\* the session Active and exactly one response is sent before any further
\* select case is processed (the Send is pending, or it delivered the one
\* response, or it failed and ended the session).
C2_FirstRequestOneResponse ==
    (TookRequest(TRUE) /\ WellFormed(discReq.nodeId)) =>
        /\ ~initialRequest
        /\ \/ mainPc = "Send" /\ sendCalls = lastEvent.calls /\ sent = <<>>
           \/ mainPc = "Select" /\ sendCalls = lastEvent.calls + 1 /\ Len(sent) = 1
           \/ mainPc = "Done" /\ sendCalls = lastEvent.calls + 1 /\ sent = <<>>
                              /\ result = SendError

C2_Witness ==
    /\ TookRequest(TRUE)
    /\ WellFormed(discReq.nodeId)
    /\ mainPc = "Select"
    /\ Len(sent) = 1
    /\ tickPending

\* C3: a malformed node id on the first request of a stream, or on the request
\* of a fetch, fails with the identity-parse error; the stream sends nothing
\* and never becomes Active.
C3_MalformedNodeIdFails ==
    /\ (fetch.called /\ ~WellFormed(fetch.in.nodeId)) =>
           fetch.resp = Nil /\ fetch.err = ParseError
    /\ (TookRequest(TRUE) /\ ~WellFormed(discReq.nodeId)) =>
           /\ initialRequest
           /\ sendCalls = 0
           /\ mainPc = "Done"
           /\ result = ParseError

\* C4: an Active session that takes an ACK (echoed nonce is the last sent
\* nonce, no error detail) sends nothing in reaction.
C4_AckNoResponse ==
    (TookRequest(FALSE) /\ IsAck(discReq)) => NoSendInReaction

C4_Witness ==
    TookRequest(FALSE) /\ IsAck(discReq) /\ Len(sent) = 1 /\ mainPc = "Select"

\* C5 as stated: a session, in whatever state, that takes a request whose
\* nonce is not the last sent nonce sends nothing and keeps its state.
C5_StaleIgnoredInAnyState ==
    (lastEvent.ev = "request" /\ IsStale(discReq)) =>
        NoSendInReaction /\ initialRequest = lastEvent.wasInitial

\* C5 amended: an Active session that takes a request whose nonce is not the
\* last sent nonce sends nothing and keeps its state (initial-request flag,
\* last nonce and version, i.e. the responses sent).
C5_StaleIgnoredWhenActive ==
    (TookRequest(FALSE) /\ IsStale(discReq)) =>
        NoSendInReaction /\ ~initialRequest /\ Len(sent) = lastEvent.calls

C5_Witness ==
    TookRequest(FALSE) /\ IsStale(discReq) /\ Len(sent) = 1 /\ mainPc = "Select"

\* C6: an Active session that takes a NACK (echoed nonce is the last sent
\* nonce, error detail present) sends nothing and rebuilds nothing in reaction.
C6_NackNoResponse ==
    (TookRequest(FALSE) /\ IsNack(discReq)) => NoSendInReaction

C6_Witness ==
    TookRequest(FALSE) /\ IsNack(discReq) /\ Len(sent) = 1 /\ mainPc = "Select"

\* C7: once the session is Active a tick is ignored: the step that takes it
\* sends nothing and changes no session state.
C7_TickIgnoredWhenActive ==
    [][(MainTick /\ ~initialRequest) =>
          /\ UNCHANGED <<initialRequest, discReq, receiveError, sent, sendCalls, result>>
          /\ mainPc' = "Select"]_vars

C7_Witness ==
    TookTick(FALSE) /\ Len(sent) = 1 /\ mainPc = "Select"

\* C8: when stream.Recv failed with Canceled or io.EOF, the receive goroutine
\* records no error and the main loop, on observing the closed handoff
\* channel, ends the session returning nil, whether or not the initial request
\* had been processed; the only other return is that of a failed Send.
C8_BenignRecvErrorReturnsNil ==
    lastEvent.recvErr \in {"Canceled", "EOF"} =>
        /\ receiveError = Nil
        /\ lastEvent.ev = "closed" => (mainPc = "Done" /\ result = Nil)
        /\ mainPc = "Done" => result \in {Nil, SendError}

C8_Witness ==
    /\ lastEvent.ev = "closed"
    /\ lastEvent.recvErr = "EOF"
    /\ result = Nil
    /\ ~lastEvent.wasInitial

\* C9: when stream.Recv failed with any other error, the receive goroutine
\* records it before closing the handoff channel and the main loop, on
\* observing the closed channel, ends the session returning exactly that
\* error; the only other return is that of a failed Send.
C9_OtherRecvErrorReturned ==
    lastEvent.recvErr \notin {Nil, "Canceled", "EOF"} =>
        /\ receiveError = lastEvent.recvErr
        /\ lastEvent.ev = "closed" => (mainPc = "Done" /\ result = lastEvent.recvErr)
        /\ mainPc = "Done" => result \in {lastEvent.recvErr, SendError}

C9_Witness ==
    /\ lastEvent.ev = "closed"
    /\ lastEvent.recvErr = "Unavailable"
    /\ result = "Unavailable"

\* C10: when stream.Send fails the session ends at once: StreamListeners
\* returns the send error and calls Send no more.
C10_SendFailureEndsSession ==
    sendCalls > Len(sent) =>
        mainPc = "Done" /\ result = SendError /\ sendCalls = Len(sent) + 1

C10_Witness ==
    sendCalls > Len(sent) /\ result = SendError /\ mainPc = "Done"

\* C11: once the stream is closed both tasks terminate; in particular, after
\* StreamListeners has returned, the receive goroutine is never left blocked
\* on the handoff channel (holding a request, the single slot taken, nobody
\* left to drain it).
C11_ReceiveGoroutineNeverStuck ==
    mainPc = "Done" => ~(recvPc = "Enqueue" /\ Len(reqChannel) >= ChanCap)

\* C12: only the main loop calls stream.Send: every step that calls Send or
\* delivers a response is a step of the main loop at its Send, makes exactly
\* one call and is no step of the receive goroutine.
C12_OnlyMainLoopSends ==
    [][(sendCalls' # sendCalls \/ sent' # sent) =>
          /\ mainPc = "Send"
          /\ sendCalls' = sendCalls + 1
          /\ UNCHANGED <<recvPc, recvReq, nRecv, reqChannel, chanClosed,
                         receiveError>>]_vars

C12_Witness ==
    Len(sent) = 1 /\ sendCalls = 1 /\ recvPc = "Enqueue" /\ nRecv = 2

\* C13: the session state is never accessed by two tasks at once: the
\* initial-request flag changes only in steps of the main loop; receiveError
\* is written by the receive goroutine only before the handoff channel is
\* closed; the main loop reads it (to return it) only once the channel is
\* closed and the goroutine has finished.
C13_SessionStateNotShared ==
    [][/\ initialRequest' # initialRequest =>
            (mainPc = "Select" /\ UNCHANGED <<recvPc, receiveError>>)
       /\ receiveError' # receiveError =>
            (recvPc = "Recv" /\ ~chanClosed /\ ~chanClosed' /\ UNCHANGED mainPc)
       /\ (mainPc = "Select" /\ result' # result) =>
            (chanClosed /\ recvPc = "Done" /\ result' = receiveError)]_vars

C13_Witness ==
    /\ lastEvent.ev = "closed"
    /\ result = "Unavailable"
    /\ receiveError = "Unavailable"
    /\ ~initialRequest

C15_FetchReturnsResponse ==
    (fetch.called /\ WellFormed(fetch.in.nodeId)) =>
        fetch.resp # Nil /\ fetch.err = Nil

\* The requests Recv has returned and the main loop has not taken yet: the
\* one in the channel slot, then the one the goroutine is holding.
Held == IF recvPc = "Enqueue" THEN <<recvReq>> ELSE <<>>
InTransit == reqChannel \o Held

\* C24: a silent client cannot block the main loop: whenever the receive
\* goroutine is blocked in stream.Recv and the main loop is at its select with
\* a tick pending, the loop can take that tick without anything arriving
\* from the network first.
C24_SilentClientTickTaken ==
    (recvPc = "Recv" /\ mainPc = "Select" /\ tickPending) => ENABLED MainTick

\* The loop has taken a tick from a client that never sent anything and
\* whose Recv is still blocked.
C24_Witness ==
    /\ lastEvent.ev = "tick"
    /\ nRecv = 0
    /\ recvPc = "Recv"
    /\ reqChannel = <<>>
    /\ ~chanClosed

\* C25: the handoff queue never holds more than one request, and the receive
\* goroutine calls Recv again only when it holds no request it has still to
\* enqueue.
C25_SingleSlotHandoff ==
    /\ [](Len(reqChannel) <= 1)
    /\ [][nRecv' # nRecv => (recvPc = "Recv" /\ recvReq = NilReq /\ Held = <<>>)]_vars

\* The slot is taken and the goroutine waits with the next request in hand.
C25_Witness ==
    /\ Len(reqChannel) = 1
    /\ recvPc = "Enqueue"
    /\ nRecv = 2

\* C26: as long as the main loop has not returned, the requests Recv returned
\* are exactly those the loop took followed by those still in transit, in
\* receive order (none lost, none twice, none overtaken); and the loop sees
\* the channel closed only after it has taken every one of them.
C26_DeliveredOnceInOrder ==
    /\ mainPc # "Done" => lastEvent.received = lastEvent.delivered \o InTransit
    /\ lastEvent.ev = "closed" => lastEvent.delivered = lastEvent.received

\* Two different requests were received and delivered, then the closure seen.
C26_Witness ==
    /\ lastEvent.ev = "closed"
    /\ Len(lastEvent.delivered) = 2
    /\ lastEvent.delivered[1] # lastEvent.delivered[2]

\* C27: over a whole session at most one response is sent, and the call of
\* Send is entered in the very step in which initialRequest is cleared.
C27_AtMostOneResponse ==
    /\ [](Len(sent) <= 1 /\ sendCalls <= 1)
    /\ [][(initialRequest /\ ~initialRequest') <=> (mainPc # "Send" /\ mainPc' = "Send")]_vars

\* A session that ran to its end after two requests and has sent one response.
C27_Witness ==
    /\ lastEvent.ev = "closed"
    /\ Len(lastEvent.delivered) = 2
    /\ Len(sent) = 1
    /\ result = Nil

----------------------------------------------------------------------------
(* Properties of normalizeListeners *)

Key(listener) == AddressString(listener.address)

Keys(listeners) == {Key(listeners[i]) : i \in 1..Len(listeners)}

\* The first position of the key in the sequence.
FirstIndex(listeners, key) ==
    CHOOSE i \in 1..Len(listeners) :
        /\ Key(listeners[i]) = key
        /\ \A j \in 1..(i - 1) : Key(listeners[j]) # key

\* The sequences that are the argument in another order.
Reorderings(listeners) ==
    {[i \in 1..Len(listeners) |-> listeners[f[i]]] :
        f \in {g \in [1..Len(listeners) -> 1..Len(listeners)] :
                 \A i, j \in 1..Len(listeners) : i # j => g[i] # g[j]}}

\* Listeners that share a key are the same listener.
OneListenerPerKey(listeners) ==
    \A i, j \in 1..Len(listeners) :
        Key(listeners[i]) = Key(listeners[j]) => listeners[i] = listeners[j]

\* C16: the result of normalizeListeners holds no two listeners with the
\* same key.
C16_NoDuplicateKeys ==
    norm.pc = "done" =>
        \A i, j \in 1..Len(norm.out) : i # j => Key(norm.out[i]) # Key(norm.out[j])

C16_Witness ==
    /\ norm.pc = "done"
    /\ Len(norm.in) = 3
    /\ Len(norm.out) = 2
    /\ Key(norm.in[1]) = Key(norm.in[3])

\* C17: the result of normalizeListeners is in ascending order of key under
\* byte-wise string comparison.
C17_SortedByKey ==
    norm.pc = "done" =>
        \A i, j \in 1..Len(norm.out) :
            i < j => ~LexLess(Key(norm.out[j]), Key(norm.out[i]))

\* 10.0.0.2:443 sorts before 10.0.0.2:80, and the argument had them reversed.
C17_Witness ==
    /\ norm.pc = "done"
    /\ Len(norm.out) = 3
    /\ norm.in[1].address = [ip |-> Ip5, port |-> 80]
    /\ norm.in[2].address = [ip |-> Ip2, port |-> 80]
    /\ norm.out[1].address = [ip |-> Ip2, port |-> 443]
    /\ norm.out[2].address = [ip |-> Ip2, port |-> 80]

\* C18: of the listeners of the argument that share a key, the result keeps
\* the one that comes first in the argument.
C18_FirstOccurrenceWins ==
    norm.pc = "done" =>
        \A k \in 1..Len(norm.out) :
            norm.out[k] = norm.in[FirstIndex(norm.in, Key(norm.out[k]))]

C18_Witness ==
    /\ norm.pc = "done"
    /\ Len(norm.in) = 3
    /\ Key(norm.in[1]) = Key(norm.in[3])
    /\ norm.in[1] # norm.in[3]
    /\ Len(norm.out) = 2
    /\ norm.in[1] \in {norm.out[1], norm.out[2]}

\* C19 as stated: every permutation of any argument gives the same result.
C19_OrderIndependent ==
    norm.pc = "done" =>
        \A p \in Reorderings(norm.in) : normalizeListeners(p) = norm.out

\* C19 amended: when the listeners of the argument that share a key are the
\* same listener (distinct keys, or identical listeners repeated), every
\* permutation of the argument gives the same result.
C19_OrderIndependentOnePerKey ==
    (norm.pc = "done" /\ OneListenerPerKey(norm.in)) =>
        \A p \in Reorderings(norm.in) : normalizeListeners(p) = norm.out

C19_Witness ==
    /\ norm.pc = "done"
    /\ OneListenerPerKey(norm.in)
    /\ Len(norm.in) = 3
    /\ norm.in[1] = norm.in[3]
    /\ Len(norm.out) = 2
    /\ norm.out[1] = norm.in[2]

\* C30: normalizeListeners is idempotent: applied to its own result it
\* returns that result unchanged.
C30_NormalizeIdempotent ==
    norm.pc = "done" => normalizeListeners(norm.out) = norm.out

\* A call whose argument had a duplicated key and was out of order, so that
\* the first application did change it.
C30_Witness ==
    /\ norm.pc = "done"
    /\ Len(norm.in) = 3
    /\ Len(norm.out) = 2
    /\ norm.out # SubSeq(norm.in, 1, 2)
    /\ normalizeListeners(norm.out) = norm.out

\* C31: a call of normalizeListeners leaves its argument as it was, and its
\* result holds listeners of the argument only, one for each distinct key of
\* the argument, so that its length is the number of distinct keys.
C31_OnePerKeyInputUntouched ==
    [][(norm.pc = "ready" /\ norm'.pc = "done") =>
          /\ norm'.in = norm.in
          /\ Keys(norm'.out) = Keys(norm.in)
          /\ Len(norm'.out) = Cardinality(Keys(norm.in))
          /\ \A i \in 1..Len(norm'.out) :
                \E j \in 1..Len(norm.in) : norm'.out[i] = norm.in[j]]_vars

\* Three listeners on one address went in and one came out.
C31_Witness ==
    /\ norm.pc = "done"
    /\ Len(norm.in) = 3
    /\ Cardinality(Keys(norm.in)) = 1
    /\ Len(norm.out) = 1

----------------------------------------------------------------------------
(* Properties of the duration conversions *)

\* C20: a duration taken to the wire format and back is the same duration,
\* negative durations and fractions of a second included.
C20_DurationRoundTrip ==
    dur.pc = "done" => dur.back = dur.d

C20_Witness ==
    /\ dur.pc = "done"
    /\ dur.d < 0
    /\ dur.wire.seconds < 0
    /\ dur.wire.nanos < 0
    /\ dur.back = dur.d

\* The total of a wire duration in nanoseconds.
WireTotal(w) == w.seconds * NanosPerSecond + w.nanos

\* Normalized: the nanosecond field is short of a second and does not oppose
\* the seconds in sign.
Normalized(w) ==
    /\ Abs(w.nanos) < NanosPerSecond
    /\ w.seconds > 0 => w.nanos >= 0
    /\ w.seconds < 0 => w.nanos <= 0

\* C21: a wire duration taken to time.Duration and back comes back
\* normalized and with the same total of nanoseconds; one that was normalized
\* already comes back as it was.
C21_WireRoundTripNormalizes ==
    wdur.pc = "done" =>
        /\ Normalized(wdur.back)
        /\ WireTotal(wdur.back) = WireTotal(wdur.wire)
        /\ Normalized(wdur.wire) => wdur.back = wdur.wire

\* A wire duration whose nanosecond field opposes its seconds, or is a second
\* or more, has come back in another shape.
C21_Witness ==
    /\ wdur.pc = "done"
    /\ wdur.wire.seconds = 1
    /\ wdur.wire.nanos < -NanosPerSecond
    /\ wdur.back.seconds = 0
    /\ wdur.back.nanos = wdur.wire.nanos + NanosPerSecond

\* C32: for every internal duration, the wire form durationToProto returns
\* is normalized: the nanosecond field is short of a second in size and never
\* opposes the seconds in sign.
C32_ToProtoNormalized ==
    dur.pc \in {"wire", "done"} => Normalized(dur.wire)

\* A negative duration of more than a second, not a whole number of seconds.
C32_Witness ==
    /\ dur.pc = "wire"
    /\ dur.d < -NanosPerSecond
    /\ dur.wire.seconds = -1
    /\ dur.wire.nanos < 0
    /\ dur.wire.nanos > -NanosPerSecond

----------------------------------------------------------------------------
(* Properties of the conversions beyond the range of time.Duration *)

\* Whether x fits a two's complement word of `bits` bits.
Fits(x, bits) == -(2 ^ (bits - 1)) <= x /\ x < 2 ^ (bits - 1)

ScaledTotal(w) == w.seconds * ScaledSecond + w.nanos

\* C22: converting a wire duration whose total does not fit the duration
\* word fails with an error, does not panic, and does not return the
\* wrapped-around total.
C22_OverflowIsAnError ==
    (ovf.pc = "done" /\ ~Fits(ScaledTotal(ovf.wire), ScaledBits)) =>
        /\ ovf.out.err # Nil
        /\ ~ovf.out.panicked
        /\ ovf.out.value # WrapSigned(ScaledTotal(ovf.wire), ScaledBits)

----------------------------------------------------------------------------
(* Properties of the REST facade and of mustMarshalToString *)

\* C23: a GET served by ListListenersV2 while Services() or
\* GetProxyServiceInstances() fails is answered with 503.
C23_BackendFailureIs503 ==
    (disco.served /\ (disco.env.servicesError \/ disco.env.instancesError)) =>
        disco.status = StatusServiceUnavailable

\* C28: NewDiscoveryService never returns (nil, nil): a failure of the v1
\* constructor comes back as a non-nil error, and a nil error comes with a
\* non-nil DiscoveryService.
C28_NeverNilNil ==
    disco.ctor = "returned" =>
        /\ disco.v1err # Nil => disco.err # Nil
        /\ disco.err = Nil => disco.ds # Nil

\* C29 as stated: mustMarshalToString never panics.
C29_MarshalNeverPanics ==
    marshal.pc = "done" => marshal.out.panic = Nil

\* The values encoding/json can marshal.
Marshalable(i) == i.kind \in {"string", "number"}

\* C29: mustMarshalToString panics with the marshaler's error exactly when
\* its argument cannot be marshaled, and otherwise returns the marshaled
\* text; it never returns an error value.
C29_MarshalPanicsOnBadInput ==
    marshal.pc = "done" =>
        /\ marshal.out.panic # Nil <=> ~Marshalable(marshal.in)
        /\ marshal.out.panic # Nil => marshal.out.panic = Marshal(marshal.in).err
        /\ marshal.out.panic = Nil => marshal.out.s = Marshal(marshal.in).s

\* A channel was handed in and the call panicked.
C29_Witness ==
    /\ marshal.pc = "done"
    /\ marshal.in.kind = "chan"
    /\ marshal.out.panic = UnsupportedType

----------------------------------------------------------------------------
(* Properties of the bug-report command *)

\* C33: gatherInfo does not block forever: once the mandatory fetches are
\* over and the proxy-log fetches have all completed and been noticed, it has
\* returned or can return at once.
C33_GatherInfoReturns ==
    (bug.pc = "waitTimer" /\ bug.optionalWg = 0 /\ bug.waiter = "done")
        => ENABLED GatherReturn

\* C34: gatherInfo does not get past mandatoryWg.Wait() while a goroutine of
\* mandatoryWg is still running, whether or not the timer has fired; the
\* timeout cuts short the wait for the proxy-log fetches only.
C34_MandatoryFetchesAwaited ==
    bug.pc \notin {"idle", "launch", "waitMandatory"} => bug.mandatoryWg = 0

\* gatherInfo has returned on the timeout with a proxy-log fetch still
\* running, after a run that had coredump and istiod fetches to wait for.
C34_Witness ==
    /\ bug.pc = "readErrors"
    /\ bug.paths = <<"istio-proxy", "discovery">>
    /\ bug.optionalWg = 1
    /\ bug.mandatoryWg = 0

\* C35: runBugReportCommand reads gErrors and iterates logs, both without
\* lock, only when no getProxyLogs goroutine is left that can write them.
C35_NoReadBesideWriter ==
    bug.pc \in {"readErrors", "iterLogs"} =>
        \A i \in DOMAIN bug.opt : bug.opt[i] \in {"none", "done"}

\* C36: the config parseConfig returns when a config file is given has, for
\* every field, the file's value where the file sets the field and the
\* flags' value where it does not.
C36_OverlayOverridesBase ==
    (cfg.pc = "done" /\ cfg.hasFile) =>
        \A f \in ConfigFields :
            cfg.out[f] = IF cfg.overlay[f] # 0 THEN cfg.overlay[f] ELSE cfg.base[f]

\* C37: once GetClusterResources has returned, the Pod map leads from the
\* name of every pod that has a Deployment to that pod's own data, and
\* ContainerRestarts gives the restart count of that pod's container.
C37_PodMapHoldsOwnPod ==
    cluster.pc = "returned" =>
        \A n \in 1..Len(cluster.ns) : \A i \in 1..Len(cluster.ns[n]) :
            LET pod == cluster.ns[n][i]
            IN  pod.owned =>
                  /\ pod.name \in DOMAIN cluster.Pod
                  /\ PodAt(pod.name) = pod
                  /\ ContainerRestarts(pod.name, "istio-proxy") = pod.restarts

----------------------------------------------------------------------------
(* Properties of operator remove *)

\* C38: without a controller and without --force, operatorRemove renders
\* nothing, never calls the deleter and ends in the abort; with --force it
\* goes on past the check, and calls the deleter once unless rendering the
\* manifest or reaching the cluster fails first.
C38_NoDeleteWithoutControllerOrForce ==
    /\ (~oprm.run.installed /\ ~oprm.run.force) =>
          /\ ~oprm.rendered
          /\ oprm.deleterCalls = 0
          /\ oprm.pc \in {"idle", "check", "fatal"}
    /\ (~oprm.run.installed /\ oprm.run.force) =>
          /\ oprm.pc = "fatal" => (oprm.rendered /\ ~(oprm.run.renderOk /\ oprm.run.clientOk))
          /\ oprm.pc \in {"success", "errors"} => oprm.deleterCalls = 1

\* A forced removal without a controller that reached and called the deleter.
C38_Witness ==
    /\ ~oprm.run.installed
    /\ oprm.run.force
    /\ oprm.pc = "errors"
    /\ oprm.deleterCalls = 1

====
